---- MODULE Spec2Model ----
(***************************************************************************)
(* Model of FFmpegDecoder (VideoClient/video/ffmpegdecoder.cpp): the       *)
(* control API of the decode pipeline (open, play, seek, reset, close),    *)
(* the presentation API (getFrameRenderingData, finishedDisplayingFrame)   *)
(* and the three workers that run between them; and the callbacks of its   *)
(* file I/O adapter (IOContext), under a specification of their own.       *)
(*                                                                         *)
(* The worker bodies (parse, decode, display) and the two queue classes    *)
(* are not part of ffmpegdecoder.cpp; they are modelled from the design    *)
(* document (sections 4.2, 4.3, 4.5 and 5).  A decoder listener is taken   *)
(* to be registered, so every `if (m_decoderListener)` emits its event.    *)
(***************************************************************************)
EXTENDS Integers, Sequences, FiniteSets, TLC

\* ------------------------------------------------------------------ bounds
\* largest generation a session is driven to (no seek/reset is posted beyond)
MaxGen == 1
\* capacity of the frame queue and of the packet queue
MaxFrames == 1
MaxPackets == 1
\* largest file behind the I/O adapter, in bytes
MaxFileSize == 3

\* sentinel "no seek pending"; stands for INT64_MIN, targets are >= 0
AV_NOPTS_VALUE == -1

\* an opened source starts at 1 and lasts 3 units
StartTimes == {1}
Durations == {3}
\* seekDuration arguments, and seekByPercent arguments as fractions <<num, den>>
Times == {0, 2}
Percents == {<<1, 2>>}
Generations == 0..MaxGen

SourceKinds == {"file", "url", "camera", "desktop"}
\* the point at which openDecoder gives up ("none": it does not; "noVideo":
\* the container holds no video stream)
OpenFailures == {"notRegular", "fopen", "ifmt", "openInput", "streamInfo",
                 "paramsToCtx", "codecNotFound", "codecOpen", "geometry"}
LateOutcomes == {"paramsToCtx", "codecNotFound", "codecOpen", "geometry",
                 "none", "noVideo"}
OpenOutcomes == OpenFailures \cup LateOutcomes

VARIABLES
    \* ---- fields of the decoder
    m_bIsFile,                  \* seekable source
    m_formatContext,            \* "null" | "ctx"
    m_videoCodecContext,        \* [alloc, opaque, thread_count]
    m_ioCtx,                    \* I/O adapter installed
    m_videoStreamNumber,        \* -1 | 0
    m_startTime, m_duration, m_currentTime,
    m_frameDisplayingRequested,
    m_generation,
    m_isPaused, m_isPlaying,
    m_bValidHardWare,
    m_seekDuration, m_videoResetDuration,
    m_videoResetting,
    m_mainParseThread, m_mainVideoThread, m_mainDisplayThread,
                                \* "null" | "run" | "int" | "done"
    m_videoPacketsQueue,        \* Seq of packet pts, EOS marker last
    m_videoFramesQueue,         \* Seq of frames [gen, pts, hw]
    \* ---- state of the threads
    packetsNotified,            \* m_videoPacketsQueue.notify() not yet observed
    srcPos,                     \* demuxer read position
    decoded,                    \* frame the decode worker holds, not yet pushed
    closePc,                    \* position of the control thread inside close()
    isFileReallyClosed,         \* local of closeProcessing
    presPc,                     \* position of the presentation thread
    crashed,                    \* the process died on a null dereference
    posts,                      \* seek targets posted on a playing file source
                                \* since the worker's last exchange: the first
                                \* and, after several calls, the latest
    opened,                     \* how the last open call named its source:
                                \* "none" | "file" | "live"
    endReached,                 \* the parse worker has read the source to its
                                \* end in the session that is open or closing
    \* ---- what the last step handed to its caller or to the outside
    ret,                        \* value returned by a bool call: [op, val]
    events,                     \* listener events emitted
    acked,                      \* an acknowledgment arrived: "none", or "stale"
                                \* when its generation was not the live one
    data,                       \* FrameRenderingData written
    coalesced,                  \* the worker's exchange covered several posts
    leaked,                     \* an InputStream record became unreachable
    overwritten,                \* a format context that was still open was
                                \* overwritten without being closed
    removedHw,                  \* how hardware frames left the frame queue in
                                \* this step: "none" | "unref" | "raw" (still
                                \* in hardware memory format)
    \* ---- the file behind the I/O adapter (IOContext::fh)
    fileSize,                   \* its length in bytes
    filePos,                    \* its read offset
    ioRet                       \* value the last adapter callback returned

cfgVars == <<m_bIsFile, opened, m_formatContext, m_videoCodecContext, m_ioCtx,
             m_videoStreamNumber, m_startTime, m_duration, m_bValidHardWare>>
ctlVars == <<m_currentTime, m_frameDisplayingRequested, m_generation,
             m_isPaused, m_isPlaying, m_seekDuration, m_videoResetDuration,
             m_videoResetting>>
threadVars == <<m_mainParseThread, m_mainVideoThread, m_mainDisplayThread>>
queueVars == <<m_videoPacketsQueue, m_videoFramesQueue>>
workerVars == <<packetsNotified, srcPos, decoded>>
pcVars == <<closePc, isFileReallyClosed, presPc, crashed>>
outVars == <<ret, events, acked, data, coalesced, leaked, overwritten,
             removedHw>>
decoderVars == <<cfgVars, ctlVars, threadVars, queueVars, workerVars, pcVars,
                 posts, endReached, outVars>>
ioVars == <<fileSize, filePos, ioRet>>

vars == <<decoderVars, ioVars>>

NullCodecContext == [alloc |-> FALSE, opaque |-> FALSE, thread_count |-> 0]
NoFrame == [gen |-> -1, pts |-> -1, hw |-> FALSE]
EOS == -2
NoAck == "none"
NoCall == [op |-> "none", val |-> FALSE]
Call(op, val) == [op |-> op, val |-> val]

\* a step that returns nothing, emits nothing, writes nothing for a caller
NoRet == ret' = NoCall
NoEvents == events' = <<>>
NoPres == acked' = NoAck /\ data' = NoFrame
NoAudit ==
    /\ coalesced' = FALSE /\ leaked' = FALSE
    /\ overwritten' = FALSE /\ removedHw' = "none"
Silent == NoRet /\ NoEvents /\ NoPres /\ NoAudit

ControlIdle == closePc = "idle" /\ ~crashed

\* ------------------------------------------------ construction (247-266)
\* FFmpegDecoder::FFmpegDecoder, which ends in resetVariables
InitDecoder ==
    /\ m_bIsFile = FALSE
    /\ m_formatContext = "null"
    /\ m_videoCodecContext = NullCodecContext
    /\ m_ioCtx = FALSE
    /\ m_videoStreamNumber = -1
    /\ m_startTime = 0 /\ m_duration = 0 /\ m_currentTime = 0
    /\ m_frameDisplayingRequested = FALSE
    /\ m_generation = 0
    /\ m_isPaused = FALSE /\ m_isPlaying = FALSE
    /\ m_bValidHardWare = FALSE
    /\ m_seekDuration = AV_NOPTS_VALUE
    /\ m_videoResetDuration = AV_NOPTS_VALUE
    /\ m_videoResetting = FALSE
    /\ m_mainParseThread = "null"
    /\ m_mainVideoThread = "null"
    /\ m_mainDisplayThread = "null"
    /\ m_videoPacketsQueue = <<>>
    /\ m_videoFramesQueue = <<>>
    /\ packetsNotified = FALSE
    /\ srcPos = 0
    /\ decoded = NoFrame
    /\ closePc = "idle"
    /\ isFileReallyClosed = FALSE
    /\ presPc = "idle"
    /\ crashed = FALSE
    /\ posts = <<>>
    /\ opened = "none"
    /\ endReached = FALSE
    /\ ret = NoCall
    /\ events = <<>>
    /\ acked = NoAck
    /\ data = NoFrame
    /\ coalesced = FALSE
    /\ leaked = FALSE
    /\ overwritten = FALSE
    /\ removedHw = "none"

\* what an adapter callback returned: [op, whence, val]
IOCall(op, whence, val) == [op |-> op, whence |-> whence, val |-> val]
NoIOCall == IOCall("none", "none", 0)

\* the decoder as constructed, no file behind an adapter
Init ==
    /\ InitDecoder
    /\ fileSize = 0 /\ filePos = 0 /\ ioRet = NoIOCall

\* ------------------------------------------- resetVideoProcessing (521-595)
\* What the call leaves behind, for the point `outcome` at which it gives up
\* and the answer `hwOk` of dxva2_init.  FreeVideoCodecContext first releases
\* the old context together with its record; the guard of line 525 frees a
\* half-built context with avcodec_free_context, which does not delete the
\* record `opaque` points to.
resetVideoProcessing(streamNumber, outcome, hwOk) ==
    IF streamNumber < 0
    THEN [ok |-> TRUE, ctx |-> NullCodecContext,
          validHw |-> m_bValidHardWare, leak |-> FALSE]
    ELSE IF outcome \in {"paramsToCtx", "codecNotFound"}
    THEN [ok |-> FALSE, ctx |-> NullCodecContext,
          validHw |-> m_bValidHardWare, leak |-> FALSE]
    ELSE IF outcome \in {"codecOpen", "geometry"}
    THEN [ok |-> FALSE, ctx |-> NullCodecContext,
          validHw |-> hwOk, leak |-> hwOk]
    ELSE [ok |-> TRUE,
          ctx |-> [alloc |-> TRUE, opaque |-> hwOk,
                   thread_count |-> IF hwOk THEN 1 ELSE 2],
          validHw |-> hwOk, leak |-> FALSE]

\* variant: the end of the range is reported as the bare duration
fileLoadedEvents_endIsDuration(startTime, duration) ==
    << <<"fileLoaded">>,
       <<"changedFramePosition", startTime, startTime, duration>> >>

\* 511-515: what a successful open tells the listener
fileLoadedEvents(startTime, duration) ==
    << <<"fileLoaded">>,
       <<"changedFramePosition", startTime, startTime, duration + startTime>> >>

\* ----------------------------------------------------- openDecoder (392-519)
openDecoder(kind, outcome, hwOk, st, du) ==
    LET r == resetVideoProcessing(IF outcome = "noVideo" THEN -1 ELSE 0,
                                  outcome, hwOk)
        loaded == fileLoadedEvents(st, du)
    IN
    /\ m_bIsFile' = (kind = "file")
    /\ opened' = (IF kind = "file" THEN "file" ELSE "live")
    /\ NoPres /\ coalesced' = FALSE /\ removedHw' = "none"
    /\ UNCHANGED <<ctlVars, threadVars, queueVars, packetsNotified, decoded,
                   closePc, isFileReallyClosed, presPc, posts, endReached>>
    /\ \/ \* 400-407: not a regular file, or the file cannot be opened
          /\ outcome \in {"notRegular", "fopen"}
          /\ ret' = Call("open", FALSE)
          /\ NoEvents /\ leaked' = FALSE /\ overwritten' = FALSE
          /\ UNCHANGED <<m_formatContext, m_videoCodecContext, m_ioCtx,
                         m_videoStreamNumber, m_startTime, m_duration,
                         m_bValidHardWare, srcPos, crashed>>
       \/ \* 413-465: the context is allocated, then closed by its guard
          /\ outcome \in {"ifmt", "openInput", "streamInfo"}
          /\ overwritten' = (m_formatContext # "null")
          /\ m_formatContext' = "null"
          /\ ret' = Call("open", FALSE)
          /\ NoEvents /\ leaked' = FALSE
          /\ UNCHANGED <<m_videoCodecContext, m_ioCtx, m_videoStreamNumber,
                         m_startTime, m_duration, m_bValidHardWare, srcPos,
                         crashed>>
       \/ \* 483-492: no video stream: timeStream stays nullptr and is
          \* dereferenced; the process dies here ...
          /\ outcome = "noVideo"
          /\ crashed' = TRUE
          /\ overwritten' = (m_formatContext # "null")
          /\ m_formatContext' = "ctx"
          /\ m_videoStreamNumber' = -1
          /\ NoRet /\ NoEvents /\ leaked' = FALSE
          /\ UNCHANGED <<m_videoCodecContext, m_ioCtx, m_startTime, m_duration,
                         m_bValidHardWare, srcPos>>
       \/ \* ... or reads some start time and duration and goes on
          \* 467-519: the stream is chosen, the codec set up
          /\ outcome \in LateOutcomes
          /\ overwritten' = (m_formatContext # "null")
          /\ m_videoStreamNumber' = IF outcome = "noVideo" THEN -1 ELSE 0
          /\ m_startTime' = st
          /\ m_duration' = du
          /\ m_videoCodecContext' = r.ctx
          /\ m_bValidHardWare' = r.validHw
          /\ leaked' = r.leak
          /\ crashed' = crashed
          /\ IF r.ok
             THEN /\ m_formatContext' = "ctx"
                  /\ m_ioCtx' = (kind = "file")
                  /\ srcPos' = st
                  /\ events' = loaded
                  /\ ret' = Call("open", TRUE)
             ELSE /\ m_formatContext' = "null"
                  /\ m_ioCtx' = m_ioCtx
                  /\ srcPos' = srcPos
                  /\ NoEvents
                  /\ ret' = Call("open", FALSE)

\* variant: the test of line 608 is missing, every call starts the workers
play_always(isPaused) ==
    /\ m_isPaused' = isPaused
    /\ m_isPlaying' = TRUE
    /\ m_mainParseThread' = "run"
    /\ m_mainDisplayThread' = "run"
    /\ Silent
    /\ UNCHANGED <<cfgVars, m_currentTime, m_frameDisplayingRequested,
                   m_generation, m_seekDuration, m_videoResetDuration,
                   m_videoResetting, m_mainVideoThread, queueVars, workerVars,
                   pcVars, posts, endReached>>

\* ------------------------------------------------------------ play (597-615)
play(isPaused) ==
    /\ m_isPaused' = isPaused
    /\ IF m_mainParseThread = "null"
       THEN /\ m_isPlaying' = TRUE
            /\ m_mainParseThread' = "run"
            /\ m_mainDisplayThread' = "run"
       ELSE UNCHANGED <<m_isPlaying, m_mainParseThread, m_mainDisplayThread>>
    /\ Silent
    /\ UNCHANGED <<cfgVars, m_currentTime, m_frameDisplayingRequested,
                   m_generation, m_seekDuration, m_videoResetDuration,
                   m_videoResetting, m_mainVideoThread, queueVars, workerVars,
                   pcVars, posts, endReached>>

\* variant: a target is stored only into an empty slot (compare-exchange)
seekDuration_keepFirst(duration) ==
    /\ IF ~m_bIsFile
       THEN /\ ret' = Call("seekDuration", FALSE)
            /\ UNCHANGED <<m_seekDuration, packetsNotified>>
       ELSE /\ ret' = Call("seekDuration", TRUE)
            /\ IF m_mainParseThread # "null" /\ m_seekDuration = AV_NOPTS_VALUE
               THEN /\ m_seekDuration' = duration
                    /\ packetsNotified' = TRUE
               ELSE UNCHANGED <<m_seekDuration, packetsNotified>>
    /\ NoEvents /\ NoPres /\ NoAudit
    /\ UNCHANGED <<cfgVars, m_currentTime, m_frameDisplayingRequested,
                   m_generation, m_isPaused, m_isPlaying, m_videoResetDuration,
                   m_videoResetting, threadVars, queueVars, srcPos, decoded,
                   pcVars>>

\* variant: the seekable test of line 648 is missing
seekDuration_anySource(duration) ==
    /\ ret' = Call("seekDuration", TRUE)
    /\ IF m_mainParseThread # "null"
       THEN /\ m_seekDuration' = duration
            /\ packetsNotified' =
                  (packetsNotified \/ m_seekDuration = AV_NOPTS_VALUE)
       ELSE UNCHANGED <<m_seekDuration, packetsNotified>>
    /\ NoEvents /\ NoPres /\ NoAudit
    /\ UNCHANGED <<cfgVars, m_currentTime, m_frameDisplayingRequested,
                   m_generation, m_isPaused, m_isPlaying, m_videoResetDuration,
                   m_videoResetting, threadVars, queueVars, srcPos, decoded,
                   pcVars>>

\* ---------------------------------------------------- seekDuration (646-656)
\* m_seekDuration.exchange(duration) runs only behind `m_mainParseThread &&`
seekDuration(duration) ==
    /\ IF ~m_bIsFile
       THEN /\ ret' = Call("seekDuration", FALSE)
            /\ UNCHANGED <<m_seekDuration, packetsNotified>>
       ELSE /\ ret' = Call("seekDuration", TRUE)
            /\ IF m_mainParseThread # "null"
               THEN /\ m_seekDuration' = duration
                    /\ packetsNotified' =
                          (packetsNotified \/ m_seekDuration = AV_NOPTS_VALUE)
               ELSE UNCHANGED <<m_seekDuration, packetsNotified>>
    /\ NoEvents /\ NoPres /\ NoAudit
    /\ UNCHANGED <<cfgVars, m_currentTime, m_frameDisplayingRequested,
                   m_generation, m_isPaused, m_isPlaying, m_videoResetDuration,
                   m_videoResetting, threadVars, queueVars, srcPos, decoded,
                   pcVars>>

\* int64_t(m_duration * percent) for a percent num/den >= 0: truncation
PercentOf(duration, percent) == (duration * percent[1]) \div percent[2]

\* --------------------------------------------------- seekByPercent (679-682)
seekByPercent(percent) ==
    seekDuration(m_startTime + PercentOf(m_duration, percent))

\* A seek call on a playing file source adds its target to the posts the
\* worker has not yet observed (a record of the calls, not of the slot); of
\* a longer burst the first and the latest call are kept.
PlayingFile == m_bIsFile /\ m_mainParseThread # "null"
RecordPost(duration) ==
    posts' = IF ~PlayingFile THEN posts
             ELSE IF posts = <<>> THEN <<duration>>
             ELSE <<posts[1], duration>>

PendingCount ==
    (IF m_seekDuration # AV_NOPTS_VALUE THEN 1 ELSE 0)
    + (IF m_videoResetDuration # AV_NOPTS_VALUE THEN 1 ELSE 0)

\* ------------------------------------------------------ videoReset (658-665)
videoReset ==
    /\ m_videoResetting' = TRUE
    /\ IF m_mainParseThread # "null"
       THEN /\ m_videoResetDuration' = m_currentTime
            /\ packetsNotified' =
                  (packetsNotified \/ m_videoResetDuration = AV_NOPTS_VALUE)
       ELSE UNCHANGED <<m_videoResetDuration, packetsNotified>>
    /\ Silent
    /\ UNCHANGED <<cfgVars, m_currentTime, m_frameDisplayingRequested,
                   m_generation, m_isPaused, m_isPlaying, m_seekDuration,
                   threadVars, queueVars, srcPos, decoded, pcVars, posts,
                   endReached>>

\* ----------------------------------------- finishedDisplayingFrame (627-644)
\* one step: the body runs under m_videoFramesMutex; av_frame_unref of a
\* hardware frame precedes popFront
canPop(q) == Len(q) > 0

\* av_frame_unref gives the picture back to its owner and resets the
\* frame's fields: the frame is in no hardware format afterwards
av_frame_unref(frame) == [frame EXCEPT !.hw = FALSE]

\* how the frames `before` left the queue, given what they were (`after`)
\* at the moment they left
HowRemoved(before, after) ==
    IF \E i \in 1..Len(after) : after[i].hw THEN "raw"
    ELSE IF \E i \in 1..Len(before) : before[i].hw THEN "unref"
    ELSE "none"

\* m_videoFramesQueue.clear(): every frame is released as the design asks
\* of a frame that leaves the queue (hardware frames are unreferenced)
VQueue_clear(q) ==
    [i \in 1..Len(q) |-> IF q[i].hw THEN av_frame_unref(q[i]) ELSE q[i]]

\* variant: the acknowledgment pops without comparing generations
finishedDisplayingFrame_anyGeneration(generation) ==
    /\ IF canPop(m_videoFramesQueue)
       THEN m_videoFramesQueue' = Tail(m_videoFramesQueue)
       ELSE m_videoFramesQueue' = m_videoFramesQueue
    /\ m_frameDisplayingRequested' = FALSE
    /\ acked' = (IF generation = m_generation THEN "none" ELSE "stale")
    /\ data' = NoFrame
    /\ NoRet /\ NoEvents /\ NoAudit
    /\ UNCHANGED <<cfgVars, m_currentTime, m_generation, m_isPaused,
                   m_isPlaying, m_seekDuration, m_videoResetDuration,
                   m_videoResetting, threadVars, m_videoPacketsQueue,
                   workerVars, pcVars, posts, endReached>>

\* variant: the front frame is popped as it is (lines 634-637 missing)
finishedDisplayingFrame_noUnref(generation) ==
    /\ IF generation = m_generation /\ canPop(m_videoFramesQueue)
       THEN /\ m_videoFramesQueue' = Tail(m_videoFramesQueue)
            /\ removedHw' = HowRemoved(<<Head(m_videoFramesQueue)>>,
                                       <<Head(m_videoFramesQueue)>>)
       ELSE /\ m_videoFramesQueue' = m_videoFramesQueue
            /\ removedHw' = "none"
    /\ m_frameDisplayingRequested' = FALSE
    /\ acked' = (IF generation = m_generation THEN "none" ELSE "stale")
    /\ data' = NoFrame
    /\ NoRet /\ NoEvents
    /\ coalesced' = FALSE /\ leaked' = FALSE /\ overwritten' = FALSE
    /\ UNCHANGED <<cfgVars, m_currentTime, m_generation, m_isPaused,
                   m_isPlaying, m_seekDuration, m_videoResetDuration,
                   m_videoResetting, threadVars, m_videoPacketsQueue,
                   workerVars, pcVars, posts, endReached>>

finishedDisplayingFrame(generation) ==
    /\ IF generation = m_generation /\ canPop(m_videoFramesQueue)
       THEN LET current_frame == Head(m_videoFramesQueue)
                \* 634-637: a frame in hardware format is unreferenced
                popped == IF current_frame.hw
                          THEN av_frame_unref(current_frame)
                          ELSE current_frame
            IN /\ m_videoFramesQueue' = Tail(m_videoFramesQueue)
               /\ removedHw' = HowRemoved(<<current_frame>>, <<popped>>)
       ELSE /\ m_videoFramesQueue' = m_videoFramesQueue
            /\ removedHw' = "none"
    /\ m_frameDisplayingRequested' = FALSE
    /\ acked' = (IF generation = m_generation THEN "none" ELSE "stale")
    /\ data' = NoFrame
    /\ NoRet /\ NoEvents
    /\ coalesced' = FALSE /\ leaked' = FALSE /\ overwritten' = FALSE
    /\ UNCHANGED <<cfgVars, m_currentTime, m_generation, m_isPaused,
                   m_isPlaying, m_seekDuration, m_videoResetDuration,
                   m_videoResetting, threadVars, m_videoPacketsQueue,
                   workerVars, pcVars, posts, endReached>>

\* ------------------------------------------- getFrameRenderingData (684-710)
\* No mutex is taken: the test of line 686 and the read of the front frame
\* (691-709) are separate steps of the presentation thread.
getFrameRenderingData_check ==
    /\ presPc = "idle"
    /\ IF \/ ~m_frameDisplayingRequested
          \/ m_mainParseThread = "null"
          \/ m_videoResetting
       THEN /\ ret' = Call("getFrameRenderingData", FALSE)
            /\ presPc' = "idle"
       ELSE /\ NoRet
            /\ presPc' = "front"
    /\ NoEvents /\ NoPres /\ NoAudit
    /\ UNCHANGED <<cfgVars, ctlVars, threadVars, queueVars, workerVars,
                   closePc, isFileReallyClosed, crashed, posts, endReached>>

\* front() of an empty queue hands out whatever the slot last held: a frame
\* of any generation up to the live one
StaleFrames == {[gen |-> g, pts |-> 0, hw |-> FALSE] : g \in 0..m_generation}

getFrameRenderingData_front ==
    /\ presPc = "front"
    /\ \E f \in (IF m_videoFramesQueue = <<>> THEN StaleFrames \cup {NoFrame}
                 ELSE {Head(m_videoFramesQueue)}) :
          \* 692-693: a slot that never held a picture is refused
          /\ data' = f
          /\ ret' = Call("getFrameRenderingData", f # NoFrame)
    /\ presPc' = "idle"
    /\ acked' = NoAck
    /\ NoEvents /\ NoAudit
    /\ UNCHANGED <<cfgVars, ctlVars, threadVars, queueVars, workerVars,
                   closePc, isFileReallyClosed, crashed, posts, endReached>>

\* ---------------------------------------------------------- Shutdown (50-57)
\* th->interrupt() on a thread that exists; th->join() returns once it ended
\* variant: the interruption is never delivered
Shutdown_unnoticed(th) == th
Shutdown_interrupt(th) == IF th = "run" THEN "int" ELSE th
\* variant: join does not wait for the thread
Shutdown_detached(th) == TRUE
Shutdown_joined(th) == th \in {"null", "done"}

closeRest == <<cfgVars, ctlVars, queueVars, workerVars, isFileReallyClosed,
               presPc, crashed, posts>>

\* ----------------------------------------------------------- close (306-319)
\* The control thread is seen where it touches the threads: at an interrupt.
\* A join has returned by the time the next line runs, so its return is part
\* of the step that runs that line (a thread that has ended stays ended).

\* line 311: the parse thread is interrupted, close waits in its join
close_ShutdownParse ==
    /\ closePc = "idle"
    /\ m_mainParseThread' = Shutdown_interrupt(m_mainParseThread)
    /\ closePc' = "join_parse"
    /\ Silent
    /\ UNCHANGED <<closeRest, m_mainVideoThread, m_mainDisplayThread,
                   endReached>>

\* line 312, once the join of line 311 has returned
close_ShutdownVideo ==
    /\ closePc = "join_parse"
    /\ Shutdown_joined(m_mainParseThread)
    /\ m_mainVideoThread' = Shutdown_interrupt(m_mainVideoThread)
    /\ closePc' = "join_video"
    /\ Silent
    /\ UNCHANGED <<closeRest, m_mainParseThread, m_mainDisplayThread,
                   endReached>>

\* line 313, once the join of line 312 has returned
close_ShutdownDisplay ==
    /\ closePc = "join_video"
    /\ Shutdown_joined(m_mainVideoThread)
    /\ m_mainDisplayThread' = Shutdown_interrupt(m_mainDisplayThread)
    /\ closePc' = "join_display"
    /\ Silent
    /\ UNCHANGED <<closeRest, m_mainParseThread, m_mainVideoThread,
                   endReached>>

\* -------------------------------------------------- resetVariables (270-304)
\* (m_formatContext and m_videoCodecContext are set by the caller's step)
resetVariables ==
    /\ m_startTime' = 0
    /\ m_currentTime' = 0
    /\ m_duration' = 0
    /\ m_frameDisplayingRequested' = FALSE
    /\ m_generation' = 0
    /\ m_isPaused' = FALSE
    /\ m_bValidHardWare' = FALSE
    /\ m_seekDuration' = AV_NOPTS_VALUE
    /\ m_videoResetDuration' = AV_NOPTS_VALUE
    /\ m_videoResetting' = FALSE
    /\ m_isPlaying' = FALSE

\* ------------------------------------------------- closeProcessing (321-365)
\* 323-354, once the join of line 313 has returned: queues cleared, thread
\* handles dropped, contexts freed, variables reset.  The worker-local state
\* goes with the threads.
closeProcessing ==
    /\ closePc = "join_display"
    /\ Shutdown_joined(m_mainDisplayThread)
    /\ m_videoPacketsQueue' = <<>>
    /\ packetsNotified' = FALSE
    /\ m_mainVideoThread' = "null"
    /\ m_mainParseThread' = "null"
    /\ m_mainDisplayThread' = "null"
    /\ m_videoFramesQueue' = <<>>
    /\ m_videoCodecContext' = NullCodecContext
    /\ isFileReallyClosed' = (m_formatContext # "null")
    /\ m_formatContext' = "null"
    /\ m_ioCtx' = FALSE
    /\ resetVariables
    /\ srcPos' = 0
    /\ decoded' = NoFrame
    /\ posts' = <<>>
    /\ closePc' = "closeNotify"
    /\ removedHw' = HowRemoved(m_videoFramesQueue,
                               VQueue_clear(m_videoFramesQueue))
    /\ NoRet /\ NoEvents /\ NoPres
    /\ coalesced' = FALSE /\ leaked' = FALSE /\ overwritten' = FALSE
    /\ UNCHANGED <<m_bIsFile, opened, m_videoStreamNumber, presPc, crashed,
                   endReached>>

\* 356-364: fileReleased if a file was open, then decoderClosed
closeProcessing_notify ==
    /\ closePc = "closeNotify"
    /\ events' = (IF isFileReallyClosed THEN << <<"fileReleased">> >> ELSE <<>>)
                 \o << <<"decoderClosed">> >>
    /\ isFileReallyClosed' = FALSE
    /\ closePc' = "playingFinished"
    /\ NoRet /\ NoPres /\ NoAudit
    /\ UNCHANGED <<cfgVars, ctlVars, threadVars, queueVars, workerVars,
                   presPc, crashed, posts, endReached>>

\* 317-318, and close returns
close_playingFinished ==
    /\ closePc = "playingFinished"
    /\ events' = << <<"playingFinished">> >>
    /\ closePc' = "idle"
    /\ endReached' = FALSE
    /\ NoRet /\ NoPres /\ NoAudit
    /\ UNCHANGED <<closeRest, threadVars>>

\* ------------------------------------------------------------------ workers
\* Parse worker (design 4.2).  It starts the decode worker, polls the two
\* control slots with exchange, reads units into the packet queue, and ends
\* on end-of-stream or on interruption.
StreamEnd == m_startTime + m_duration
Clamp(t) == IF t < m_startTime THEN m_startTime
            ELSE IF t > StreamEnd THEN StreamEnd ELSE t

parseRest == <<m_bIsFile, opened, m_formatContext, m_ioCtx, m_videoStreamNumber,
               m_startTime, m_duration, m_currentTime,
               m_frameDisplayingRequested, m_isPaused, m_isPlaying, pcVars>>

parseRunnable_start ==
    /\ m_mainParseThread = "run"
    /\ m_mainVideoThread = "null"
    /\ m_mainVideoThread' = "run"
    /\ Silent
    /\ UNCHANGED <<cfgVars, ctlVars, m_mainParseThread, m_mainDisplayThread,
                   queueVars, workerVars, pcVars, posts, endReached>>

ParseRunning ==
    /\ m_mainParseThread = "run"
    /\ m_mainVideoThread # "null"
    /\ m_formatContext # "null"

\* step 2 of 4.2 for the seek slot: exchange it back to the sentinel, seek
\* the source, flush both queues, bump the generation
parseRunnable_seek ==
    /\ ParseRunning
    /\ m_seekDuration # AV_NOPTS_VALUE
    /\ m_seekDuration' = AV_NOPTS_VALUE
    /\ packetsNotified' = FALSE
    /\ srcPos' = Clamp(m_seekDuration)
    /\ m_videoPacketsQueue' = <<>>
    /\ m_videoFramesQueue' = <<>>
    /\ m_generation' = m_generation + 1
    /\ coalesced' = (Len(posts) > 1 /\ posts[1] # posts[Len(posts)])
    /\ posts' = <<>>
    /\ endReached' = endReached
    /\ NoRet /\ NoEvents /\ NoPres
    /\ leaked' = FALSE /\ overwritten' = FALSE /\ removedHw' = "none"
    /\ UNCHANGED <<parseRest, m_videoCodecContext, m_bValidHardWare,
                   m_videoResetDuration, m_videoResetting, threadVars,
                   decoded>>

\* step 2 of 4.2 for the reset slot: as a seek, and the codec is set up again
\* (4.4: the hardware decision is made once per open/reset)
parseRunnable_reset ==
    /\ ParseRunning
    /\ m_seekDuration = AV_NOPTS_VALUE
    /\ m_videoResetDuration # AV_NOPTS_VALUE
    /\ m_videoResetDuration' = AV_NOPTS_VALUE
    /\ packetsNotified' = FALSE
    /\ srcPos' = Clamp(m_videoResetDuration)
    /\ m_videoPacketsQueue' = <<>>
    /\ m_videoFramesQueue' = <<>>
    /\ m_generation' = m_generation + 1
    /\ \E hwOk \in BOOLEAN :
          LET r == resetVideoProcessing(m_videoStreamNumber, "none", hwOk)
          IN /\ m_videoCodecContext' = r.ctx
             /\ m_bValidHardWare' = r.validHw
    /\ m_videoResetting' = FALSE
    /\ Silent
    /\ UNCHANGED <<parseRest, m_seekDuration, threadVars, decoded, posts,
                   endReached>>

\* steps 3 and 4 of 4.2: the next unit goes into the packet queue (the push
\* waits while the queue is full); at the end of the stream the marker goes
\* in and the worker stops
parseRunnable_read ==
    /\ ParseRunning
    /\ m_seekDuration = AV_NOPTS_VALUE
    /\ m_videoResetDuration = AV_NOPTS_VALUE
    /\ Len(m_videoPacketsQueue) < MaxPackets
    /\ IF srcPos < StreamEnd
       THEN /\ srcPos' = srcPos + 1
            /\ m_videoPacketsQueue' =
                  IF m_videoStreamNumber >= 0
                  THEN Append(m_videoPacketsQueue, srcPos)
                  ELSE m_videoPacketsQueue
            /\ m_mainParseThread' = m_mainParseThread
       ELSE /\ srcPos' = srcPos
            /\ m_videoPacketsQueue' = Append(m_videoPacketsQueue, EOS)
            /\ m_mainParseThread' = "done"
    /\ endReached' = (endReached \/ srcPos >= StreamEnd)
    /\ Silent
    /\ UNCHANGED <<cfgVars, ctlVars, m_mainVideoThread, m_mainDisplayThread,
                   m_videoFramesQueue, packetsNotified, decoded, pcVars,
                   posts>>

\* the interruption is observed at the loop top and in every wait
parseRunnable_exit ==
    /\ m_mainParseThread = "int"
    /\ m_mainParseThread' = "done"
    /\ Silent
    /\ UNCHANGED <<cfgVars, ctlVars, m_mainVideoThread, m_mainDisplayThread,
                   queueVars, workerVars, pcVars, posts, endReached>>

\* reading from a source that is not open dereferences a null context
parseRunnable_crash ==
    /\ m_mainParseThread = "run"
    /\ m_mainVideoThread # "null"
    /\ m_formatContext = "null"
    /\ crashed' = TRUE
    /\ Silent
    /\ UNCHANGED <<cfgVars, ctlVars, threadVars, queueVars, workerVars,
                   closePc, isFileReallyClosed, presPc, posts, endReached>>

\* Decode worker (design 4.3): pop a unit, decode it into a frame tagged with
\* the current generation, push the frame unless it went stale meanwhile.
decodeRunnable_pop ==
    /\ m_mainVideoThread = "run"
    /\ decoded = NoFrame
    /\ m_videoPacketsQueue # <<>>
    /\ m_videoPacketsQueue' = Tail(m_videoPacketsQueue)
    /\ IF Head(m_videoPacketsQueue) = EOS
       THEN /\ m_mainVideoThread' = "done"
            /\ decoded' = decoded
       ELSE /\ m_mainVideoThread' = m_mainVideoThread
            /\ decoded' = [gen |-> m_generation,
                           pts |-> Head(m_videoPacketsQueue),
                           hw |-> m_bValidHardWare]
    /\ Silent
    /\ UNCHANGED <<cfgVars, ctlVars, m_mainParseThread, m_mainDisplayThread,
                   m_videoFramesQueue, packetsNotified, srcPos, pcVars, posts,
                   endReached>>

decodeRunnable_push ==
    /\ m_mainVideoThread = "run"
    /\ decoded # NoFrame
    /\ \/ /\ decoded.gen # m_generation
          /\ m_videoFramesQueue' = m_videoFramesQueue
       \/ /\ decoded.gen = m_generation
          /\ Len(m_videoFramesQueue) < MaxFrames
          /\ m_videoFramesQueue' = Append(m_videoFramesQueue, decoded)
    /\ decoded' = NoFrame
    /\ Silent
    /\ UNCHANGED <<cfgVars, ctlVars, threadVars, m_videoPacketsQueue,
                   packetsNotified, srcPos, pcVars, posts, endReached>>

decodeRunnable_exit ==
    /\ m_mainVideoThread = "int"
    /\ m_mainVideoThread' = "done"
    /\ decoded' = NoFrame
    /\ Silent
    /\ UNCHANGED <<cfgVars, ctlVars, m_mainParseThread, m_mainDisplayThread,
                   queueVars, packetsNotified, srcPos, pcVars, posts,
                   endReached>>

\* Display worker (design 4.5): when no display is requested and a frame can
\* be popped, it requests the display of the front frame; it waits while
\* paused.
displayRunnable_request ==
    /\ m_mainDisplayThread = "run"
    /\ ~m_isPaused
    /\ ~m_frameDisplayingRequested
    /\ canPop(m_videoFramesQueue)
    /\ m_frameDisplayingRequested' = TRUE
    /\ m_currentTime' = Head(m_videoFramesQueue).pts
    /\ Silent
    /\ UNCHANGED <<cfgVars, m_generation, m_isPaused, m_isPlaying,
                   m_seekDuration, m_videoResetDuration, m_videoResetting,
                   threadVars, queueVars, workerVars, pcVars, posts,
                   endReached>>

displayRunnable_exit ==
    /\ m_mainDisplayThread = "int"
    /\ m_mainDisplayThread' = "done"
    /\ Silent
    /\ UNCHANGED <<cfgVars, ctlVars, m_mainParseThread, m_mainVideoThread,
                   queueVars, workerVars, pcVars, posts, endReached>>

\* ------------------------------------------------------------ specification
\* The control thread issues one call at a time; a new discontinuity is only
\* requested while the generation is below MaxGen.
MayBump == m_generation + PendingCount < MaxGen
SeekAllowed ==
    \/ ~PlayingFile
    \/ m_seekDuration # AV_NOPTS_VALUE
    \/ MayBump
ResetAllowed ==
    \/ m_mainParseThread = "null"
    \/ m_videoResetDuration # AV_NOPTS_VALUE
    \/ MayBump

\* the answers of the library calls one open can meet: dxva2_init is only
\* asked, and the stream times only read, where the outcome gets that far
OutcomesOf(kind) ==
    OpenOutcomes \ ((IF kind = "file" THEN {} ELSE {"notRegular", "fopen"})
                    \cup (IF kind \in {"camera", "desktop"} THEN {}
                          ELSE {"ifmt"}))
OpenInputs(kind) ==
    {<<o, FALSE, 0, 0>> : o \in OutcomesOf(kind) \ LateOutcomes}
    \cup {<<o, FALSE, st, du>> :
             o \in {"paramsToCtx", "codecNotFound", "noVideo"},
             st \in StartTimes, du \in Durations}
    \cup {<<o, hwOk, st, du>> :
             o \in {"codecOpen", "geometry", "none"}, hwOk \in BOOLEAN,
             st \in StartTimes, du \in Durations}

\* Section 4.6: open is issued in the Closed state (no source is open).
\* (The decoder's steps do not show the file behind the adapter: the demuxer
\* that drives the adapter is a library.)
OpenDecoder ==
    /\ ControlIdle /\ m_formatContext = "null"
    /\ \E kind \in SourceKinds : \E in \in OpenInputs(kind) :
          openDecoder(kind, in[1], in[2], in[3], in[4])
    /\ UNCHANGED ioVars

Play ==
    /\ ControlIdle
    /\ \E isPaused \in BOOLEAN : play(isPaused)
    /\ UNCHANGED ioVars

SeekDuration ==
    /\ ControlIdle /\ SeekAllowed
    /\ \E t \in Times : seekDuration(t) /\ RecordPost(t)
    /\ UNCHANGED <<endReached, ioVars>>

SeekByPercent ==
    /\ ControlIdle /\ SeekAllowed
    /\ \E p \in Percents :
          /\ seekByPercent(p)
          /\ RecordPost(m_startTime + PercentOf(m_duration, p))
    /\ UNCHANGED <<endReached, ioVars>>

VideoReset == ControlIdle /\ ResetAllowed /\ videoReset /\ UNCHANGED ioVars

Close ==
    /\ ~crashed
    /\ \/ close_ShutdownParse
       \/ close_ShutdownVideo
       \/ close_ShutdownDisplay
       \/ closeProcessing
       \/ closeProcessing_notify
       \/ close_playingFinished
    /\ UNCHANGED ioVars

FinishedDisplayingFrame ==
    /\ ~crashed /\ presPc = "idle"
    /\ \E g \in Generations : finishedDisplayingFrame(g)
    /\ UNCHANGED ioVars

GetFrameRenderingData ==
    /\ ~crashed
    /\ (getFrameRenderingData_check \/ getFrameRenderingData_front)
    /\ UNCHANGED ioVars

ParseWorker ==
    /\ ~crashed
    /\ \/ parseRunnable_start
       \/ parseRunnable_seek
       \/ parseRunnable_reset
       \/ parseRunnable_read
       \/ parseRunnable_exit
       \/ parseRunnable_crash
    /\ UNCHANGED ioVars

DecodeWorker ==
    /\ ~crashed
    /\ (decodeRunnable_pop \/ decodeRunnable_push \/ decodeRunnable_exit)
    /\ UNCHANGED ioVars

DisplayWorker ==
    /\ ~crashed
    /\ (displayRunnable_request \/ displayRunnable_exit)
    /\ UNCHANGED ioVars

Next ==
    \/ OpenDecoder
    \/ Play
    \/ SeekDuration
    \/ SeekByPercent
    \/ VideoReset
    \/ Close
    \/ FinishedDisplayingFrame
    \/ GetFrameRenderingData
    \/ ParseWorker
    \/ DecodeWorker
    \/ DisplayWorker

Spec == Init /\ [][Next]_vars

\* ------------------------------------------------------------------ claims
\* every target a seek call of the model can pass to seekDuration
SeekTargets ==
    Times \cup {m_startTime + PercentOf(m_duration, p) : p \in Percents}
Joined(th) == th \in {"null", "done"}

\* C1: finishedDisplayingFrame(g) removes the front frame of the frame queue
\* only when g is the live generation and a frame can be popped; for every
\* other g, and for an empty queue, the call leaves the queue as it was,
\* whatever seek or reset bumps ran before it.
C1_AckPopsOnlyLiveGeneration ==
    [][\A g \in Generations :
          finishedDisplayingFrame(g) =>
             /\ (g = m_generation /\ Len(m_videoFramesQueue) > 0
                    => m_videoFramesQueue' = Tail(m_videoFramesQueue))
             /\ (g # m_generation \/ Len(m_videoFramesQueue) = 0
                    => m_videoFramesQueue' = m_videoFramesQueue)]_vars

\* a stale acknowledgment arrived after a bump, and the frame is still queued
C1_StaleAckKeptFrame ==
    /\ acked = "stale"
    /\ m_generation > 0
    /\ m_videoFramesQueue # <<>>

\* C2: a frame handed out by getFrameRenderingData (a call that returned
\* true) carries the generation that is current at that moment.
C2_SnapshotIsCurrentGeneration ==
    ret = Call("getFrameRenderingData", TRUE) => data.gen = m_generation

\* C3: seek calls on a playing file source that arrive before the worker's
\* exchange leave one pending target, the latest; the exchange executes one
\* seek, to that target, and empties the slot, so no second seek follows.
C3_SeekCoalescing ==
    [][/\ (posts' # <<>> => m_seekDuration' = posts'[Len(posts')])
       /\ (posts' = <<>> => m_seekDuration' = AV_NOPTS_VALUE)
       /\ (parseRunnable_seek =>
              /\ posts # <<>>
              /\ srcPos' = Clamp(posts[Len(posts)])
              /\ m_generation' = m_generation + 1
              /\ m_seekDuration' = AV_NOPTS_VALUE
              /\ posts' = <<>>)]_vars

\* the worker's exchange covered several posts with different targets
C3_BurstCollapsed == coalesced /\ m_generation > 0

\* C4: once a source was opened as non-file (URL, camera, desktop), every
\* seekDuration and seekByPercent call returns false, leaves the pending seek
\* target as it was and notifies nobody, in whatever lifecycle state.
C4_LiveSeekRefused ==
    [][\A t \in SeekTargets :
          opened = "live" /\ seekDuration(t) =>
             /\ ret' = Call("seekDuration", FALSE)
             /\ m_seekDuration' = m_seekDuration
             /\ packetsNotified' = packetsNotified]_vars

\* a seek was refused while the workers of a live source were running
C4_RefusedWhilePlaying ==
    /\ ret = Call("seekDuration", FALSE)
    /\ opened = "live"
    /\ m_formatContext # "null"
    /\ m_mainParseThread = "run"

\* C5: on an open file source every seekDuration(t) that returns success
\* leaves the pending seek target equal to t (seekByPercent: to start +
\* duration * p), also before play() has started the workers.
C5_SuccessfulSeekIsPosted ==
    [][\A t \in SeekTargets :
          /\ opened = "file" /\ m_formatContext # "null"
          /\ seekDuration(t)
          /\ ret' = Call("seekDuration", TRUE)
          => m_seekDuration' = t]_vars

\* C6: every failure branch of open returns false with the format context
\* null, the codec context null, no I/O adapter installed, no hardware
\* negotiation record left allocated, no worker started, no event emitted.
C6_FailedOpenUnwound ==
    [][\A kind \in SourceKinds : \A in \in OpenInputs(kind) :
          in[1] \in OpenFailures
          /\ openDecoder(kind, in[1], in[2], in[3], in[4])
          => /\ ret' = Call("open", FALSE)
             /\ m_formatContext' = "null"
             /\ m_videoCodecContext' = NullCodecContext
             /\ m_ioCtx' = FALSE
             /\ leaked' = FALSE
             /\ threadVars' = threadVars
             /\ events' = <<>>]_vars

\* C7: opening a container without a video stream returns false, emits no
\* event and starts no worker.
C7_NoVideoStreamFailsOpen ==
    [][\A kind \in SourceKinds : \A in \in OpenInputs(kind) :
          in[1] = "noVideo"
          /\ openDecoder(kind, in[1], in[2], in[3], in[4])
          => /\ ret' = Call("open", FALSE)
             /\ crashed' = crashed
             /\ events' = <<>>
             /\ threadVars' = threadVars]_vars

\* C8: inside close() the decode and display workers are interrupted only
\* after the parse worker was interrupted and joined; queues are cleared and
\* contexts freed only after all three workers were joined; fileReleased
\* and decoderClosed are emitted only after that teardown.
C8_CloseOrder ==
    [][/\ (closePc # "idle" /\ m_mainVideoThread' # m_mainVideoThread
              /\ m_mainVideoThread' = "int"
              => Joined(m_mainParseThread))
       /\ (closePc # "idle" /\ m_mainDisplayThread' # m_mainDisplayThread
              /\ m_mainDisplayThread' = "int"
              => Joined(m_mainParseThread))
       /\ (closeProcessing =>
              /\ Joined(m_mainParseThread)
              /\ Joined(m_mainVideoThread)
              /\ Joined(m_mainDisplayThread))
       /\ (\E i \in 1..Len(events') :
              events'[i][1] \in {"fileReleased", "decoderClosed"})
              => /\ m_formatContext = "null"
                 /\ m_videoCodecContext = NullCodecContext
                 /\ m_ioCtx = FALSE
                 /\ m_videoPacketsQueue = <<>>
                 /\ m_videoFramesQueue = <<>>
                 /\ m_mainParseThread = "null"
                 /\ m_mainVideoThread = "null"
                 /\ m_mainDisplayThread = "null"]_vars

\* close() has joined three workers that ran, and is about to tear down a
\* session that still holds a frame
C8_AllJoinedBeforeTeardown ==
    /\ closePc = "join_display"
    /\ m_mainParseThread = "done"
    /\ m_mainVideoThread = "done"
    /\ m_mainDisplayThread = "done"
    /\ m_formatContext # "null"
    /\ m_videoFramesQueue # <<>>

\* Scheduling: a thread that can take a step eventually takes it (the control
\* thread inside close(), and each of the three workers).
FairSpec ==
    /\ Spec
    /\ WF_vars(closePc # "idle" /\ Close)
    /\ WF_vars(ParseWorker)
    /\ WF_vars(DecodeWorker)
    /\ WF_vars(DisplayWorker)

\* C9: close() of an open session always terminates, with both queues full
\* or empty and the workers blocked on them or on the pause wait: every
\* worker observes the interruption and is joined, close() returns, and the
\* frame queue is empty afterwards.
C9_CloseTerminates ==
    (closePc = "join_parse" /\ m_formatContext # "null")
       ~> (/\ closePc = "idle"
           /\ m_videoFramesQueue = <<>>
           /\ m_mainParseThread = "null"
           /\ m_mainVideoThread = "null"
           /\ m_mainDisplayThread = "null")

\* close() waits for the parse worker, interrupted while it waited to push
\* into the full packet queue; the frame queue is full, the decode worker
\* holds a frame it cannot push, and the display worker waits in pause
C9_ClosingWhileBlocked ==
    /\ closePc = "join_parse"
    /\ m_mainParseThread = "int"
    /\ Len(m_videoPacketsQueue) = MaxPackets
    /\ m_seekDuration = AV_NOPTS_VALUE
    /\ m_videoResetDuration = AV_NOPTS_VALUE
    /\ Len(m_videoFramesQueue) = MaxFrames
    /\ decoded # NoFrame
    /\ m_mainVideoThread = "run"
    /\ m_mainDisplayThread = "run"
    /\ m_isPaused

\* C10: the generation never decreases over the life of the decoder object,
\* across open, play, seek, reset and close.
C10_GenerationMonotone == [][m_generation' >= m_generation]_vars

\* ------------------------------------------- IOContext callbacks (93-152)
\* The adapter's FILE: _ftelli64 reports the read offset; _fseeki64 moves it
\* and returns 0, or returns nonzero and leaves it where it was when the
\* origin is none of SEEK_SET, SEEK_CUR, SEEK_END or the target is negative
\* (a target beyond the end of the file is accepted).
Whences == {"SEEK_SET", "SEEK_CUR", "SEEK_END", "AVSEEK_SIZE", "other"}
Offsets == (0 - MaxFileSize)..MaxFileSize
BufSizes == 1..2
AVERROR_EOF == -541478725

ftelli64(offset) == offset

fseeki64(offset, size, pos, origin) ==
    LET target == IF origin = "SEEK_SET" THEN pos
                  ELSE IF origin = "SEEK_CUR" THEN offset + pos
                  ELSE IF origin = "SEEK_END" THEN size + pos
                  ELSE -1
    IN IF target >= 0 THEN [rs |-> 0, offset |-> target]
       ELSE [rs |-> -1, offset |-> offset]

\* variant: the size query does not go back to the saved offset (line 142
\* missing)
IOSeekFunc_noRestore(pos, whence) ==
    LET atEnd == fseeki64(filePos, fileSize, 0, "SEEK_END")
        moved == fseeki64(filePos, fileSize, pos, whence)
    IN IF whence = "AVSEEK_SIZE"
       THEN /\ filePos' = atEnd.offset
            /\ ioRet' = IOCall("IOSeekFunc", whence,
                                IF atEnd.rs # 0 THEN -1
                                ELSE ftelli64(atEnd.offset))
       ELSE /\ filePos' = moved.offset
            /\ ioRet' = IOCall("IOSeekFunc", whence,
                                IF moved.rs # 0 THEN -1
                                ELSE ftelli64(moved.offset))

\* IOSeekFunc (128-152)
IOSeekFunc(pos, whence) ==
    LET current == ftelli64(filePos)
        atEnd == fseeki64(filePos, fileSize, 0, "SEEK_END")
        result == ftelli64(atEnd.offset)
        restored == fseeki64(atEnd.offset, fileSize, current, "SEEK_SET")
        moved == fseeki64(filePos, fileSize, pos, whence)
    IN IF whence = "AVSEEK_SIZE"
       THEN IF atEnd.rs # 0
            THEN /\ filePos' = atEnd.offset
                 /\ ioRet' = IOCall("IOSeekFunc", whence, -1)
            ELSE /\ filePos' = restored.offset
                 /\ ioRet' = IOCall("IOSeekFunc", whence, result)
       ELSE /\ filePos' = moved.offset
            /\ ioRet' = IOCall("IOSeekFunc", whence,
                                IF moved.rs # 0 THEN -1
                                ELSE ftelli64(moved.offset))

\* IOReadFunc (114-124): fread of up to buf_size bytes
IOReadFunc(buf_size) ==
    LET left == IF filePos < fileSize THEN fileSize - filePos ELSE 0
        len == IF buf_size < left THEN buf_size ELSE left
    IN /\ filePos' = filePos + len
       /\ ioRet' = IOCall("IOReadFunc", "none",
                           IF len = 0 THEN AVERROR_EOF ELSE len)

\* The demuxer drives the adapter of one opened file; offsets are followed
\* up to FarthestOffset.
FarthestOffset == 2 * MaxFileSize

IOSeek ==
    /\ \E pos \in Offsets : \E whence \in Whences :
          /\ IOSeekFunc(pos, whence)
          /\ filePos' <= FarthestOffset
    /\ UNCHANGED <<fileSize, decoderVars>>

IORead ==
    /\ \E buf_size \in BufSizes : IOReadFunc(buf_size)
    /\ UNCHANGED <<fileSize, decoderVars>>

\* 154-214: the file is opened, probed and rewound to offset zero
IOInit ==
    /\ InitDecoder
    /\ fileSize \in 0..MaxFileSize
    /\ filePos = 0
    /\ ioRet = NoIOCall

IONext == IOSeek \/ IORead

IOSpec == IOInit /\ [][IONext]_vars

\* ------------------------------------------------------------------ reopen
\* open called on a decoder that holds an open source: openFile, openUrl,
\* openCamera and openDesktop go straight to openDecoder (367-385), which
\* does not call close()
Reopen ==
    /\ ControlIdle /\ m_formatContext # "null"
    /\ \E kind \in SourceKinds : \E in \in OpenInputs(kind) :
          openDecoder(kind, in[1], in[2], in[3], in[4])
    /\ UNCHANGED ioVars

\* the parse worker of a session in which no seek and no reset is requested
ReopenParseWorker ==
    /\ ~crashed
    /\ \/ parseRunnable_start
       \/ parseRunnable_read
       \/ parseRunnable_exit
       \/ parseRunnable_crash
    /\ UNCHANGED ioVars

\* The sessions in which the control thread only opens, plays and closes and
\* nothing is presented: each of their runs is a run of the decoder.
ReopenNext ==
    \/ OpenDecoder
    \/ Reopen
    \/ Play
    \/ Close
    \/ ReopenParseWorker
    \/ DecodeWorker
    \/ DisplayWorker

ReopenSpec == Init /\ [][ReopenNext]_vars

\* C11: an open call on a decoder that holds an open source never overwrites
\* the format context that is still open, and when it returns true the
\* workers of the previous session are gone and both queues are empty: the
\* previous session was torn down before the new one was put in place.
C11_ReopenTearsDown ==
    [][\A kind \in SourceKinds : \A in \in OpenInputs(kind) :
          m_formatContext # "null"
          /\ openDecoder(kind, in[1], in[2], in[3], in[4])
          => /\ overwritten' = FALSE
             /\ (ret' = Call("open", TRUE) =>
                    /\ m_mainParseThread' = "null"
                    /\ m_mainVideoThread' = "null"
                    /\ m_mainDisplayThread' = "null"
                    /\ m_videoPacketsQueue' = <<>>
                    /\ m_videoFramesQueue' = <<>>)]_vars

C13_OpenEmitsLoadedThenPosition ==
    [][/\ (ret' = Call("open", TRUE) =>
             \A kind \in SourceKinds : \A in \in OpenInputs(kind) :
                openDecoder(kind, in[1], in[2], in[3], in[4])
                => /\ events' =
                         << <<"fileLoaded">>,
                            <<"changedFramePosition", m_startTime',
                              m_startTime', m_startTime' + m_duration'>> >>
                   /\ threadVars' = threadVars)
       /\ ((\E i \in 1..Len(events') :
               events'[i][1] \in {"fileLoaded", "changedFramePosition"})
              => ret' = Call("open", TRUE))]_vars

\* open has just returned true for a source with a positive start time and
\* duration, its two events delivered, no worker started
C13_OpenedAndAnnounced ==
    /\ ret = Call("open", TRUE)
    /\ m_startTime > 0 /\ m_duration > 0
    /\ Len(events) = 2
    /\ events[1] = <<"fileLoaded">>
    /\ events[2][1] = "changedFramePosition"
    /\ events[2][4] = m_startTime + m_duration
    /\ m_mainParseThread = "null"
    /\ m_mainVideoThread = "null"
    /\ m_mainDisplayThread = "null"

C15_SnapshotRefusals ==
    [][/\ (getFrameRenderingData_check
              /\ (\/ ~m_frameDisplayingRequested
                  \/ m_mainParseThread = "null"
                  \/ m_videoResetting)
              => ret' = Call("getFrameRenderingData", FALSE) /\ data' = NoFrame)
       /\ (getFrameRenderingData_front
              => /\ m_videoFramesQueue # <<>>
                 /\ (ret' = Call("getFrameRenderingData", FALSE)
                       => data' = NoFrame))]_vars

\* C16: playingFinished is delivered only for a session whose source was
\* read to its end, and then once: a close() of a decoder that was never
\* opened, or whose session did not reach the end of the stream, delivers
\* no playingFinished.
C16_PlayingFinishedOnlyAtEnd ==
    [][(\E i \in 1..Len(events') : events'[i][1] = "playingFinished")
          => /\ opened # "none"
             /\ endReached
             /\ Cardinality({i \in 1..Len(events') :
                                events'[i][1] = "playingFinished"}) = 1]_vars

\* C17: the snapshot read of getFrameRenderingData runs under the frame-queue
\* mutex, so from its test to its read of the front frame no other thread
\* pops, flushes or clears the frame queue: the front frame it tested for is
\* the front frame it reads.
C17_SnapshotNotInterleaved ==
    [][presPc = "front" /\ m_videoFramesQueue # <<>>
          => /\ m_videoFramesQueue' # <<>>
             /\ Head(m_videoFramesQueue') = Head(m_videoFramesQueue)]_vars

\* C18: videoReset sets the video-resetting flag and leaves the pending reset
\* target equal to the current playback position, notifying the packet queue
\* exactly when the slot held the sentinel before; and whenever the
\* video-resetting flag is set, a reset target is pending.
C18_ResetFlagHasTarget ==
    [][/\ (videoReset =>
             /\ m_videoResetting'
             /\ m_videoResetDuration' = m_currentTime
             /\ packetsNotified' =
                   (packetsNotified \/ m_videoResetDuration = AV_NOPTS_VALUE))
       /\ (m_videoResetting' => m_videoResetDuration' # AV_NOPTS_VALUE)]_vars

C20_SeekContract ==
    [][\A pos \in Offsets : \A whence \in Whences :
          IOSeekFunc(pos, whence) =>
             IF whence = "AVSEEK_SIZE"
             THEN ioRet'.val = fileSize /\ filePos' = filePos
             ELSE LET base == IF whence = "SEEK_SET" THEN 0
                              ELSE IF whence = "SEEK_CUR" THEN filePos
                              ELSE fileSize
                  IN IF whence # "other" /\ base + pos >= 0
                     THEN ioRet'.val = base + pos /\ filePos' = base + pos
                     ELSE ioRet'.val = -1 /\ filePos' = filePos]_vars

\* the size was reported while the read offset stood inside the file, and
\* the offset is still there
C20_SizeReportedMidFile ==
    /\ ioRet = IOCall("IOSeekFunc", "AVSEEK_SIZE", fileSize)
    /\ filePos > 0
    /\ filePos < fileSize

\* C21: a parse, decode or display worker runs only while a source is open
\* (the format context is set), whatever control calls were made, a play()
\* on a closed decoder or after a failed open included.
C21_WorkersOnlyWhileOpen ==
    (\/ m_mainParseThread \in {"run", "int"}
     \/ m_mainVideoThread \in {"run", "int"}
     \/ m_mainDisplayThread \in {"run", "int"})
       => m_formatContext # "null"

====
